---- MODULE Spec2Model ----
(***************************************************************************)
(* Model of the One Piece offline backend: the chapter downloader          *)
(* (backend/downloader.py), the update detector (backend/notification.py), *)
(* the periodic poll (backend/scheduler.py) and the request handlers of    *)
(* backend/app.py that drive them.                                         *)
(*                                                                         *)
(* The specifications share the variables:                                 *)
(*   Spec          the scheduler: start/stop, interval timer, poll job     *)
(*   SpecLifecycle the scheduler's construction, start and stop             *)
(*   SpecRestart   the scheduler when start is called again while running  *)
(*   SpecDownload  on-demand downloads by concurrent request threads       *)
(*   SpecServe     one downloading client and the EPUB-serving endpoint    *)
(*   SpecRepeat    one client downloading the same chapter repeatedly      *)
(*   SpecOnDemand  download, notify and refresh requests beside a scheduler *)
(*   SpecNotifier  catalog refresh and update detection                    *)
(*   SpecResolve   fetch_chapter_data on every response of the remote      *)
(*   SpecOrder     the page order download_chapter gives the package       *)
(*   SpecPackage   the pages download_chapter packages for a page list      *)
(*   SpecMail      send_email_notifications under every SMTP configuration *)
(*   SpecPush      the push subscriptions and send_notification            *)
(*   SpecLatest    get_latest_number while the catalog is refreshed         *)
(*   SpecPushRace  subscribe and unsubscribe on concurrent request threads  *)
(*   SpecDispatch  send_combined_notifications over both channels          *)
(*   SpecStorage   delete_chapter and the PDF and CBZ endpoints              *)
(*   SpecPaths     the files download_chapter writes for a list of page URLs *)
(*   SpecReboot    downloads of one chapter across restarts of the process   *)
(*   SpecOverlap   polls that notify, when start is called again while running *)
(*   SpecLive      a poll under fair scheduling when requests may go unanswered *)
(***************************************************************************)
EXTENDS Integers, Sequences, FiniteSets, TLC

\* ---------------------------------------------------------------- bounds
MaxChapter == 2      \* chapter numbers are 1..MaxChapter
MaxLen == 2          \* longest catalog snapshot
MaxPages == 1        \* pages of a chapter
MaxJobs == 2         \* add_job calls (job ids handed out) in one run
MaxRequests == 2     \* concurrent request threads
MaxNames == 4        \* image files of the chapter whose page order is checked
MaxSubs == 2         \* push subscriptions (distinct endpoints)
MaxDescriptors == 3  \* page descriptors of the chapter whose package is checked
MaxStored == 3       \* longest subscription list concurrent calls may build
MaxUp == 2           \* ".." segments before the last segment of a page URL
MaxUrls == 2         \* pages of the chapter whose file writes are followed
MaxNotified == 2     \* notifications counted per chapter number

Chapters == 1..MaxChapter
PageNames == 1..MaxPages
JobIds == 1..MaxJobs
Requests == (MaxJobs + 1)..(MaxJobs + MaxRequests)
Callers == JobIds \cup Requests

\* Python's None, for Optional[int] results
None == -1

\* ---------------------------------------------------------------- helpers
Range(s) == {s[i] : i \in 1..Len(s)}

Count(s, x) == Cardinality({i \in 1..Len(s) : s[i] = x})

Max(a, b) == IF a >= b THEN a ELSE b

SetMax(S) == CHOOSE x \in S : \A y \in S : y <= x

\* all catalog snapshots: lists of chapter numbers in any order; the remote
\* page is untrusted, so a number may occur twice
Snapshots == UNION {[1..k -> Chapters] : k \in 0..MaxLen}

\* the page lists the remote may return for a chapter: its pages in any order
PageLists == {pl \in [1..MaxPages -> PageNames] :
                 \A i, j \in 1..MaxPages : pl[i] = pl[j] => i = j}

\* ------------------------------------------------------------- variables
VARIABLES
    entries,          \* ChapterNotifier.entries, the cached snapshot
    cfu,              \* the last check_for_update call: inputs and result
    current_latest,   \* UpdateScheduler.current_latest, the watermark
    recipient,        \* UpdateScheduler.recipient is set
    state,            \* BackgroundScheduler.state
    job,              \* id of the job in the job store, 0 when none
    jobCount,         \* job ids handed out so far
    instances,        \* executor's running instances per job id
    poolAlive,        \* the executor's thread pool accepts submissions
    poll,             \* per job id: the _job execution in progress
    dl,               \* per caller: the download_chapter call in progress
    dirs,             \* storage_dir/<n> exists
    images,           \* storage_dir/<n>/images/<page>: absent, partial, complete
    epub,             \* storage_dir/<n>/onepiece_<n>.epub: absent, partial, complete
    served,           \* what get_chapter_epub last returned
    lastFailed,       \* numbers whose download failed transiently in the last finished poll
    unavailable,      \* numbers a finished poll saw declared unavailable by the remote
    response,         \* what download_endpoint last answered: status and exception
    fcd,              \* the last fetch_chapter_data call: response and outcome
    order,            \* the last sort of image_paths: as collected and as packaged
    smtp_config,      \* ChapterNotifier.smtp_config: per key missing, unset (None) or set
    mail,             \* the last send_email_notifications call
    subscriptions,    \* WebPushService.subscriptions, by endpoint
    push,             \* the last send_notification call
    dispatch,         \* the last send_combined_notifications call
    loaded,           \* whether a refresh has succeeded, and the snapshot of the last that did
    pushCall,         \* per request thread: the subscribe or unsubscribe call in progress
    subscribed,       \* endpoints whose subscribe call returned True and that nobody unsubscribed
    lookup,           \* the get_latest_number call in progress and its result
    startResult,      \* how the last UpdateScheduler.start call ended: none, ok, raised
    siblings,         \* storage_dir/<n>/onepiece_<n>.pdf and .cbz exist
    reply,            \* what delete_chapter, download_pdf or download_cbz last answered
    asset,            \* the download_chapter call whose file writes are followed
    pushRet,          \* the last subscribe or unsubscribe call made on its own: what it returned
    notified          \* per chapter number: the notifications the polls have sent for it

notifierVars == <<entries, cfu>>
schedVars == <<current_latest, recipient, state, job, jobCount, instances, poolAlive, poll,
               lastFailed, unavailable>>
storeVars == <<dirs, images, epub>>
callVars == <<fcd, order, smtp_config, mail, subscriptions, push, dispatch>>
endpointVars == <<startResult, siblings, reply, asset, pushRet, notified>>
threadVars == <<pushCall, subscribed, lookup, endpointVars>>
vars == <<entries, cfu, current_latest, recipient, state, job, jobCount, instances,
          poolAlive, poll, dl, dirs, images, epub, served, lastFailed, unavailable,
          response, fcd, order, smtp_config, mail, subscriptions, push, dispatch,
          loaded, pushCall, subscribed, lookup, startResult, siblings, reply, asset, pushRet,
          notified>>

\* ============================================================ notifier
\* What the catalog request can produce.
Responses ==
    {[kind |-> k, entries |-> <<>>] : k \in {"neterr", "noblock", "badjson"}}
    \cup {[kind |-> "ok", entries |-> s] : s \in Snapshots}

\* utils.fetch_mangaliste_entries: raise_for_status, the regex search and
\* json.loads each raise; only a page with a well-formed block returns
FetchRaises(resp) == resp.kind # "ok"

FetchMangalisteEntries(resp) == resp.entries

\* mutant: the cache is cleared when the fetch fails
RefreshClears(old, resp) ==
    IF FetchRaises(resp) THEN <<>> ELSE FetchMangalisteEntries(resp)

\* ChapterNotifier.refresh: the assignment happens only when the fetch returns
Refresh(old, resp) ==
    IF FetchRaises(resp) THEN old ELSE FetchMangalisteEntries(resp)

\* the history of the refreshes: whether one has returned so far, and the
\* snapshot the last one that returned brought
NeverLoaded == [ever |-> FALSE, last |-> <<>>]

EverLoaded(was, resp) ==
    IF FetchRaises(resp) THEN was
    ELSE [ever |-> TRUE, last |-> FetchMangalisteEntries(resp)]

\* mutant: the number of the first entry instead of the greatest
FirstNumber(es) == es[1]

\* max(entry.get("number", 0) for entry in self.entries), on a list with entries
MaxNumber(es) == SetMax(Range(es))

\* ChapterNotifier.get_latest_number
GetLatestNumber(es) ==
    IF es = <<>> THEN None ELSE MaxNumber(es)

\* mutant: the comparison includes the watermark itself
IsNewOrEqual(number, latest) == number >= latest

\* the filter of check_for_update
IsNew(number, latest) == number > latest

FilterNew(es, latest) == SelectSeq(es, LAMBDA n : IsNew(n, latest))

\* insertion of x into an ascending list, after the equal elements (stable)
RECURSIVE InsertSorted(_, _)
InsertSorted(x, s) ==
    IF s = <<>> THEN <<x>>
    ELSE IF x < Head(s) THEN <<x>> \o s
    ELSE <<Head(s)>> \o InsertSorted(x, Tail(s))

RECURSIVE SortedFrom(_, _)
SortedFrom(s, acc) ==
    IF s = <<>> THEN acc ELSE SortedFrom(Tail(s), InsertSorted(Head(s), acc))

\* mutant: the list is returned in snapshot order
Unsorted(s) == s

\* sorted(new_entries, key=number)
SortByNumber(s) == SortedFrom(s, <<>>)

\* ChapterNotifier.check_for_update, after its refresh
CheckForUpdate(es, latest) == SortByNumber(FilterNew(es, latest))


\* ============================================================ downloader
\* got: the pages this call has requested from the remote; path: the value
\* returned
IdleDl == [pc |-> "idle", chapter |-> 0, pages |-> <<>>, k |-> 0,
           err |-> "none", truncated |-> FALSE, got |-> {}, path |-> <<>>]

\* HTTP statuses of the chapter page: found, not found, server error
Statuses == {200, 404, 503}

\* the window.__data block of the page: absent, present but not JSON, JSON
\* without the chapter keys, or a chapter with its page list
Blocks == {"none", "badjson", "nokeys", "ok"}

\* What the request for a chapter's page can produce: a network error, or a
\* page with its status, with or without the unavailability notice, and its
\* data block.
ChapterResponses ==
    {[neterr |-> TRUE, status |-> 0, marker |-> FALSE, block |-> "none", pages |-> <<>>]}
    \cup {[neterr |-> FALSE, status |-> st, marker |-> m, block |-> b, pages |-> <<>>] :
             st \in Statuses, m \in BOOLEAN, b \in Blocks \ {"ok"}}
    \cup {[neterr |-> FALSE, status |-> st, marker |-> m, block |-> "ok", pages |-> pl] :
             st \in Statuses, m \in BOOLEAN, pl \in PageLists}

\* mutant: the data block is looked for first, the notice only when it is missing
FetchChapterDataParseFirst(resp) ==
    IF resp.neterr THEN [err |-> "Transient", searched |-> FALSE]
    ELSE IF resp.block = "none"
         THEN [err |-> IF resp.status = 404 \/ resp.marker THEN "NotAvailable" ELSE "ParseError",
               searched |-> TRUE]
    ELSE IF resp.block = "badjson" THEN [err |-> "JSONDecodeError", searched |-> TRUE]
    ELSE [err |-> "none", searched |-> TRUE]

\* utils.fetch_chapter_data, in the order of its statements: the exception
\* raised ("none" when the data object is returned) and whether re.search for
\* the data block was reached.  session.get raising is a transient error;
\* status 404 and the notice raise ValueError; the view-source request has no
\* connection adapter, so the search runs on the page already fetched; no
\* match raises RuntimeError; json.loads raises JSONDecodeError.
FetchChapterData(resp) ==
    IF resp.neterr THEN [err |-> "Transient", searched |-> FALSE]
    ELSE IF resp.status = 404 THEN [err |-> "NotAvailable", searched |-> FALSE]
    ELSE IF resp.marker THEN [err |-> "NotAvailable", searched |-> FALSE]
    ELSE IF resp.block = "none" THEN [err |-> "ParseError", searched |-> TRUE]
    ELSE IF resp.block = "badjson" THEN [err |-> "JSONDecodeError", searched |-> TRUE]
    ELSE [err |-> "none", searched |-> TRUE]

\* utils.fetch_chapter_data: which exception the response leads to
FetchChapterError(resp) == FetchChapterData(resp).err

\* the exceptions that are instances of Python's ValueError: the one
\* fetch_chapter_data raises for an unavailable chapter, and
\* json.JSONDecodeError, a subclass of ValueError
ValueErrors == {"NotAvailable", "JSONDecodeError"}

\* chapter_dir / epub_name: the chapter's directory and the file name in it
EpubPath(n) == <<n, "onepiece", n, "epub">>

\* mutant: a file at the destination never stops the download
DestNeverExists(img) == FALSE

\* mutant: only a completely written file counts as present
DestExistsComplete(img) == img = "complete"

\* dest_path.exists(): any file at the path, whatever it holds
DestExists(img) == img # "absent"

Raise(c, kind) == dl' = [dl EXCEPT ![c].pc = "raised", ![c].err = kind]

\* download_chapter is entered by caller c for chapter n
CallDownload(c, n) == [IdleDl EXCEPT !.pc = "fetch", !.chapter = n]

\* after page k: the next page, or sorting and packaging
AfterPage(d) ==
    IF d.k < Len(d.pages) THEN [d EXCEPT !.pc = "exists", !.k = d.k + 1]
    ELSE [d EXCEPT !.pc = "read"]

\* fetch_chapter_data, data["chapter"]["name"] and ["pages"] (a KeyError
\* when the object has no such keys), then ensure_dir(images_dir)
DlResolve(c) ==
    /\ dl[c].pc = "fetch"
    /\ \E resp \in ChapterResponses :
          IF FetchChapterError(resp) # "none"
          THEN /\ Raise(c, FetchChapterError(resp))
               /\ UNCHANGED dirs
          ELSE IF resp.block = "nokeys"
          THEN /\ Raise(c, "KeyError")
               /\ UNCHANGED dirs
          ELSE /\ dl' = [dl EXCEPT ![c].pc = "exists", ![c].pages = resp.pages, ![c].k = 1]
               /\ dirs' = [dirs EXCEPT ![dl[c].chapter] = TRUE]
    /\ UNCHANGED <<images, epub>>

\* _download_image: dest_path.exists()
DlExists(c) ==
    /\ dl[c].pc = "exists"
    /\ LET d == dl[c]
       IN  IF DestExists(images[d.chapter][d.pages[d.k]])
           THEN dl' = [dl EXCEPT ![c] = AfterPage(d)]
           ELSE dl' = [dl EXCEPT ![c].pc = "get"]
    /\ UNCHANGED storeVars

\* _download_image: session.get and raise_for_status
DlGet(c) ==
    /\ dl[c].pc = "get"
    /\ LET p == dl[c].pages[dl[c].k]
       IN  \/ dl' = [dl EXCEPT ![c].pc = "open", ![c].got = @ \cup {p}]
           \/ dl' = [dl EXCEPT ![c].pc = "raised", ![c].err = "Transient",
                                ![c].got = @ \cup {p}]
    /\ UNCHANGED storeVars

\* _download_image: open(dest_path, "wb") creates or truncates the file
DlOpen(c) ==
    /\ dl[c].pc = "open"
    /\ LET d == dl[c]
       IN  images' = [images EXCEPT ![d.chapter][d.pages[d.k]] = "partial"]
    /\ dl' = [dl EXCEPT ![c].pc = "write"]
    /\ UNCHANGED <<dirs, epub>>

\* _download_image: f.write(resp.content) and close, or an IOError
DlWrite(c) ==
    /\ dl[c].pc = "write"
    /\ LET d == dl[c]
       IN  \/ /\ images' = [images EXCEPT ![d.chapter][d.pages[d.k]] = "complete"]
              /\ dl' = [dl EXCEPT ![c] = AfterPage(d)]
           \/ /\ Raise(c, "Storage")
              /\ UNCHANGED images
    /\ UNCHANGED <<dirs, epub>>

\* _create_epub: every image file is read into the book
DlReadImages(c) ==
    /\ dl[c].pc = "read"
    /\ LET d == dl[c]
       IN  dl' = [dl EXCEPT ![c].pc = "epubopen",
                            ![c].truncated =
                                \E p \in Range(d.pages) : images[d.chapter][p] = "partial"]
    /\ UNCHANGED storeVars

\* epub.write_epub opens the output path itself for writing
DlEpubOpen(c) ==
    /\ dl[c].pc = "epubopen"
    /\ epub' = [epub EXCEPT ![dl[c].chapter] = "partial"]
    /\ dl' = [dl EXCEPT ![c].pc = "epubwrite"]
    /\ UNCHANGED <<dirs, images>>

\* epub.write_epub writes the archive and closes it, or fails part-way
DlEpubWrite(c) ==
    /\ dl[c].pc = "epubwrite"
    /\ \/ /\ epub' = [epub EXCEPT ![dl[c].chapter] = "complete"]
          /\ dl' = [dl EXCEPT ![c].pc = "returned", ![c].path = EpubPath(dl[c].chapter)]
       \/ /\ Raise(c, "Storage")
          /\ UNCHANGED epub
    /\ UNCHANGED <<dirs, images>>

\* one step of download_chapter by caller c
DlStep(c) ==
    \/ DlResolve(c)
    \/ DlExists(c)
    \/ DlGet(c)
    \/ DlOpen(c)
    \/ DlWrite(c)
    \/ DlReadImages(c)
    \/ DlEpubOpen(c)
    \/ DlEpubWrite(c)


\* ============================================================ scheduler
\* add_job is called without max_instances: APScheduler's default
MaxInstances == 1

IdlePoll == [pc |-> "idle", batch |-> <<>>, idx |-> 0, attempted |-> {},
             ok |-> {}, mailed |-> {}, failedT |-> {}, gone |-> {}]

\* UpdateScheduler._get_highest_downloaded
GetHighestDownloaded(ds) ==
    IF \E n \in Chapters : ds[n] THEN SetMax({n \in Chapters : ds[n]}) ELSE None

\* Python's "a or b" on Optional[int]
PyOr(a, b) == IF a = None \/ a = 0 THEN b ELSE a

\* mutant: the greatest of the stored number, the remote's latest and 0
InitialLatestMax(ds, es) ==
    Max(Max(GetHighestDownloaded(ds), GetLatestNumber(es)), 0)

\* UpdateScheduler.__init__: downloaded or (notifier.get_latest_number() or 0)
InitialLatest(ds, es) ==
    PyOr(GetHighestDownloaded(ds), PyOr(GetLatestNumber(es), 0))

\* mutant: the watermark is set to the chapter just downloaded
AdvanceToNumber(latest, number) == number

\* self.current_latest = max(self.current_latest, number)
Advance(latest, number) == Max(latest, number)

\* mutant: a failed download moves the watermark back to just below the
\* failed chapter, to have the next poll find it again
RewindOnFailure(latest, number) == number - 1

\* the except clause only logs: the watermark stays
KeepOnFailure(latest, number) == latest

\* mutant: a failed download ends the batch
AbortBatch(idx, len) == len + 1

\* the except clause is inside the for loop: the next entry follows
AfterFailure(idx, len) == idx + 1

\* mutant: the notification is sent whether or not a recipient is set
NotifyAlways(rcpt) == TRUE

\* if self.recipient:
ShouldNotify(rcpt) == rcpt

\* UpdateScheduler.start on a stopped scheduler: remove_all_jobs, add_job (a
\* job with a fresh id), scheduler.start.  A thread pool that stop has shut
\* down stays shut down.
Start ==
    /\ state = "stopped"
    /\ jobCount < MaxJobs
    /\ jobCount' = jobCount + 1
    /\ job' = jobCount + 1
    /\ state' = "running"
    /\ startResult' = "ok"
    /\ UNCHANGED <<entries, cfu, current_latest, recipient, instances, poolAlive,
                   poll, dl, storeVars, served, lastFailed, unavailable,
                   response, callVars, loaded, pushCall, subscribed, lookup,
                   siblings, reply, asset, pushRet, notified>>

\* UpdateScheduler.start on a running scheduler: remove_all_jobs and add_job
\* replace the job by one with a fresh id, then scheduler.start raises
\* SchedulerAlreadyRunningError, which start does not catch: the call ends
\* with that exception.  An instance of the removed job that is executing is
\* not interrupted.
Restart ==
    /\ state = "running"
    /\ jobCount < MaxJobs
    /\ jobCount' = jobCount + 1
    /\ job' = jobCount + 1
    /\ startResult' = "raised"
    /\ UNCHANGED <<entries, cfu, current_latest, recipient, state, instances, poolAlive,
                   poll, dl, storeVars, served, lastFailed, unavailable,
                   response, callVars, loaded, pushCall, subscribed, lookup,
                   siblings, reply, asset, pushRet, notified>>

\* UpdateScheduler.stop: shutdown(wait=False) empties the job store and shuts
\* the thread pool down without waiting for a running job
Stop ==
    /\ state = "running"
    /\ state' = "stopped"
    /\ job' = 0
    /\ poolAlive' = FALSE
    /\ UNCHANGED <<entries, cfu, current_latest, recipient, jobCount, instances,
                   poll, dl, storeVars, served, lastFailed, unavailable,
                   response, callVars, loaded, threadVars>>

\* the interval elapses: the scheduler's thread submits the job to the thread
\* pool unless MaxInstances instances of this job id are running
TimerFire(j) ==
    /\ state = "running"
    /\ job = j
    /\ poolAlive
    /\ instances[j] < MaxInstances
    /\ instances' = [instances EXCEPT ![j] = @ + 1]
    /\ poll' = [poll EXCEPT ![j] = [IdlePoll EXCEPT !.pc = "queued"]]
    /\ UNCHANGED <<entries, cfu, current_latest, recipient, state, job, jobCount,
                   poolAlive, dl, storeVars, served, lastFailed, unavailable,
                   response, callVars, loaded, threadVars>>

\* a worker thread of the pool takes the submitted job and enters _job.  A
\* pool shut down with wait=False still runs what was submitted to it.
PollBegin(j) ==
    /\ poll[j].pc = "queued"
    /\ poll' = [poll EXCEPT ![j].pc = "check"]
    /\ UNCHANGED <<entries, cfu, current_latest, recipient, state, job, jobCount,
                   instances, poolAlive, dl, storeVars, served, lastFailed, unavailable,
                   response, callVars, loaded, threadVars>>

\* _job: new_entries = self.notifier.check_for_update(self.current_latest)
PollCheck(j) ==
    /\ poll[j].pc = "check"
    /\ \E resp \in Responses :
          /\ entries' = Refresh(entries, resp)
          /\ loaded' = EverLoaded(loaded, resp)
          /\ poll' = [poll EXCEPT ![j].pc = "loop",
                                  ![j].batch = CheckForUpdate(entries', current_latest),
                                  ![j].idx = 1]
    /\ UNCHANGED <<cfu, current_latest, recipient, state, job, jobCount, instances,
                   poolAlive, dl, storeVars, served, lastFailed, unavailable,
                   response, callVars, threadVars>>

\* _job: the loop takes the next entry and calls download_chapter(number)
PollNext(j) ==
    /\ poll[j].pc = "loop"
    /\ poll[j].idx <= Len(poll[j].batch)
    /\ poll' = [poll EXCEPT ![j].pc = "wait", ![j].attempted = @ \cup {poll[j].idx}]
    /\ dl' = [dl EXCEPT ![j] = CallDownload(j, poll[j].batch[poll[j].idx])]
    /\ UNCHANGED <<notifierVars, current_latest, recipient, state, job, jobCount,
                   instances, poolAlive, storeVars, served, lastFailed, unavailable,
                   response, callVars, loaded, threadVars>>

\* _job: download_chapter returned; the watermark advances
PollSucceed(j) ==
    /\ poll[j].pc = "wait"
    /\ dl[j].pc = "returned"
    /\ current_latest' = Advance(current_latest, poll[j].batch[poll[j].idx])
    /\ poll' = [poll EXCEPT ![j].ok = @ \cup {poll[j].idx},
                            ![j].pc = IF ShouldNotify(recipient) THEN "notify" ELSE "loop",
                            ![j].idx = IF ShouldNotify(recipient) THEN @ ELSE @ + 1]
    /\ dl' = [dl EXCEPT ![j] = IdleDl]
    /\ UNCHANGED <<notifierVars, recipient, state, job, jobCount, instances,
                   poolAlive, storeVars, served, lastFailed, unavailable,
                   response, callVars, loaded, threadVars>>

\* one more notification for chapter n, counted up to MaxNotified
CountNotification(count, n) ==
    [count EXCEPT ![n] = IF @ < MaxNotified THEN @ + 1 ELSE @]

\* _job: send_email_notifications([entry], recipient); what it raises is logged
PollNotify(j) ==
    /\ poll[j].pc = "notify"
    /\ poll' = [poll EXCEPT ![j].mailed = @ \cup {poll[j].idx},
                            ![j].pc = "loop",
                            ![j].idx = @ + 1]
    /\ notified' = CountNotification(notified, poll[j].batch[poll[j].idx])
    /\ UNCHANGED <<notifierVars, current_latest, recipient, state, job, jobCount,
                   instances, poolAlive, dl, storeVars, served, lastFailed, unavailable,
                   response, callVars, loaded, pushCall, subscribed, lookup,
                   startResult, siblings, reply, asset, pushRet>>

\* _job: download_chapter raised; the exception is logged
PollFail(j) ==
    /\ poll[j].pc = "wait"
    /\ dl[j].pc = "raised"
    /\ poll' = [poll EXCEPT ![j].pc = "loop",
                            ![j].idx = AfterFailure(@, Len(poll[j].batch)),
                            ![j].failedT = IF dl[j].err = "Transient"
                                           THEN @ \cup {poll[j].batch[poll[j].idx]}
                                           ELSE @,
                            ![j].gone = IF dl[j].err = "NotAvailable"
                                        THEN @ \cup {poll[j].batch[poll[j].idx]}
                                        ELSE @]
    /\ current_latest' = KeepOnFailure(current_latest, poll[j].batch[poll[j].idx])
    /\ dl' = [dl EXCEPT ![j] = IdleDl]
    /\ UNCHANGED <<notifierVars, recipient, state, job, jobCount,
                   instances, poolAlive, storeVars, served, lastFailed, unavailable,
                   response, callVars, loaded, threadVars>>

\* _job returns; the executor releases the instance
PollDone(j) ==
    /\ poll[j].pc = "loop"
    /\ poll[j].idx > Len(poll[j].batch)
    /\ poll' = [poll EXCEPT ![j] = IdlePoll]
    /\ instances' = [instances EXCEPT ![j] = @ - 1]
    /\ lastFailed' = poll[j].failedT \ {poll[j].batch[i] : i \in poll[j].ok}
    /\ unavailable' = unavailable \cup poll[j].gone
    /\ UNCHANGED <<notifierVars, current_latest, recipient, state, job, jobCount,
                   poolAlive, dl, storeVars, served, response, callVars,
                   loaded, threadVars>>

\* a step of the download_chapter call made by poll j
PollDownload(j) ==
    /\ DlStep(j)
    /\ UNCHANGED <<notifierVars, schedVars, served, response, callVars, loaded, threadVars>>

\* the timeout of the requests a poll makes: utils calls session.get(url)
\* without one, and _download_image passes self.timeout, which is None
\* unless the constructor is given a value, and app.py gives none
RequestTimeout == None

\* the catalog request of check_for_update is never answered: without a
\* timeout the call does not return and the poll stays where it is
PollBlocks(j) ==
    /\ poll[j].pc = "check"
    /\ RequestTimeout = None
    /\ poll' = [poll EXCEPT ![j].pc = "blocked"]
    /\ UNCHANGED <<entries, cfu, current_latest, recipient, state, job, jobCount,
                   instances, poolAlive, dl, storeVars, served, lastFailed, unavailable,
                   response, callVars, loaded, threadVars>>

\* the item-page request of fetch_chapter_data or the asset request of
\* _download_image is never answered
DownloadBlocks(j) ==
    /\ dl[j].pc \in {"fetch", "get"}
    /\ RequestTimeout = None
    /\ dl' = [dl EXCEPT ![j].pc = "blocked"]
    /\ UNCHANGED <<notifierVars, schedVars, storeVars, served, response, callVars,
                   loaded, threadVars>>


\* ============================================================ request handlers
\* app.download_endpoint: downloader.download_chapter(chapter) on a request thread
DownloadEndpoint(r, n) ==
    /\ dl[r].pc = "idle"
    /\ dl' = [dl EXCEPT ![r] = CallDownload(r, n)]
    /\ UNCHANGED <<notifierVars, schedVars, storeVars, served, response, callVars,
                   loaded, threadVars>>

\* a step of the download_chapter call made by request r
RequestDownload(r) ==
    /\ DlStep(r)
    /\ UNCHANGED <<notifierVars, schedVars, served, response, callVars, loaded, threadVars>>

\* app.download_endpoint: 201 when download_chapter returned; except
\* ValueError gives 404, except Exception gives 500
EndpointStatus(d) ==
    IF d.pc = "returned" THEN 201
    ELSE IF d.err \in ValueErrors THEN 404
    ELSE 500

\* mutant: a chapter downloaded on demand raises the scheduler's watermark
WatermarkRaisedByDownload(latest, d) ==
    IF d.pc = "returned" THEN Max(latest, d.chapter) ELSE latest

\* download_endpoint holds the downloader alone: whatever download_chapter
\* did, the handler assigns nothing of a scheduler
WatermarkAfterDownload(latest, d) == latest

\* app.download_endpoint: the response is sent
DownloadRespond(r) ==
    /\ dl[r].pc \in {"returned", "raised"}
    /\ response' = [status |-> EndpointStatus(dl[r]), err |-> dl[r].err]
    /\ current_latest' = WatermarkAfterDownload(current_latest, dl[r])
    /\ dl' = [dl EXCEPT ![r] = IdleDl]
    /\ UNCHANGED <<notifierVars, recipient, state, job, jobCount, instances, poolAlive,
                   poll, lastFailed, unavailable, storeVars, served, callVars,
                   loaded, threadVars>>

\* app.get_chapter_epub: glob("*.epub"), then FileResponse of the file as it is
GetChapterEpub(n) ==
    /\ served' = IF epub[n] = "absent" THEN "404" ELSE epub[n]
    /\ UNCHANGED <<notifierVars, schedVars, dl, storeVars, response, callVars,
                   loaded, threadVars>>

\* the sibling formats of a package
Formats == {"pdf", "cbz"}

NoSiblings == [n \in Chapters |-> [f \in Formats |-> FALSE]]

IdleReply == [op |-> "none", chapter |-> 0, existed |-> FALSE, status |-> 0]

\* the handlers' except Exception clause: whatever the body raised, an
\* HTTPException of its own included, is answered with 500
CatchAll(exc) == IF exc = "none" THEN 200 ELSE 500

\* the body of delete_chapter raises HTTPException(404) when the directory
\* does not exist
DeleteRaises(existed) == IF existed THEN "none" ELSE "HTTPException404"

\* app.delete_chapter: shutil.rmtree(chapter_dir) removes the directory with
\* its images, its package and the sibling files
DeleteChapter(n) ==
    LET existed == dirs[n]
        exc == DeleteRaises(existed)
    IN  /\ reply' = [op |-> "delete", chapter |-> n, existed |-> existed,
                     status |-> CatchAll(exc)]
        /\ dirs' = [dirs EXCEPT ![n] = FALSE]
        /\ images' = [images EXCEPT ![n] = [p \in PageNames |-> "absent"]]
        /\ epub' = [epub EXCEPT ![n] = "absent"]
        /\ siblings' = [siblings EXCEPT ![n] = [f \in Formats |-> FALSE]]
        /\ UNCHANGED <<notifierVars, schedVars, dl, served, response, callVars,
                       loaded, pushCall, subscribed, lookup, startResult, asset,
                       pushRet, notified>>

\* downloader._create_pdf_from_images / _create_cbz_from_images: ChapterDownloader
\* defines neither, the attribute lookup raises AttributeError
CreateFromImages(f) == "AttributeError"

\* the body of download_pdf / download_cbz: the generator is called when the
\* file is absent; a file still absent afterwards raises HTTPException(404)
SiblingRaises(present, f) ==
    IF present THEN "none"
    ELSE IF CreateFromImages(f) # "none" THEN CreateFromImages(f)
    ELSE "HTTPException404"

\* app.download_pdf and app.download_cbz
DownloadSibling(n, f) ==
    /\ reply' = [op |-> f, chapter |-> n, existed |-> siblings[n][f],
                 status |-> CatchAll(SiblingRaises(siblings[n][f], f))]
    /\ UNCHANGED <<notifierVars, schedVars, dl, storeVars, served, response, callVars,
                   loaded, pushCall, subscribed, lookup, startResult, siblings, asset,
                   pushRet, notified>>

DownloadPdf(n) == DownloadSibling(n, "pdf")

DownloadCbz(n) == DownloadSibling(n, "cbz")

\* the current_latest values a notify request may carry
Latests == 0..MaxChapter

\* app.notify_endpoint: notifier.check_for_update(payload.current_latest); the
\* e-mails it then sends change nothing in the process
NotifyEndpoint(latest, resp) ==
    /\ entries' = Refresh(entries, resp)
    /\ loaded' = EverLoaded(loaded, resp)
    /\ cfu' = [called |-> TRUE, latest |-> latest, failed |-> FetchRaises(resp),
               snapshot |-> entries', result |-> CheckForUpdate(entries', latest)]
    /\ UNCHANGED <<schedVars, dl, storeVars, served, response, callVars, threadVars>>

\* app.get_available_chapters: notifier.refresh()
GetAvailableChapters(resp) ==
    /\ entries' = Refresh(entries, resp)
    /\ loaded' = EverLoaded(loaded, resp)
    /\ UNCHANGED <<cfu, schedVars, dl, storeVars, served, response, callVars, threadVars>>

\* ============================================================ metadata resolver
IdleFcd == [called |-> FALSE, chapter |-> 0, resp |-> <<>>, own |-> FALSE,
            err |-> "none", searched |-> FALSE, closed |-> FALSE]

\* utils.fetch_chapter_data(chapter, session=None or a session): a session
\* the function created itself is closed in its finally block
FetchChapterDataCall(n, resp, own) ==
    /\ fcd' = [called |-> TRUE, chapter |-> n, resp |-> resp, own |-> own,
               err |-> FetchChapterData(resp).err,
               searched |-> FetchChapterData(resp).searched,
               closed |-> own]
    /\ UNCHANGED <<notifierVars, schedVars, dl, storeVars, served, response,
                   order, smtp_config, mail, subscriptions, push, dispatch,
                   loaded, threadVars>>

\* ============================================================ page order
\* File names as Python strings: sequences of code points.
\* "01.jpg", "02.jpg", "03-04.jpg", "05.jpg", "10.jpg", "9.jpg"
Jpg == <<46, 106, 112, 103>>

AllNames == << <<48, 49>> \o Jpg,
               <<48, 50>> \o Jpg,
               <<48, 51, 45, 48, 52>> \o Jpg,
               <<48, 53>> \o Jpg,
               <<49, 48>> \o Jpg,
               <<57>> \o Jpg >>

FileNames == {AllNames[i] : i \in 1..MaxNames}

\* the image paths download_chapter can collect: files of one images
\* directory, each once, in the order the remote listed the pages
Listings ==
    {l \in UNION {[1..k -> FileNames] : k \in 0..MaxNames} :
        \A i, k \in 1..Len(l) : l[i] = l[k] => i = k}

\* Python's < on str: the first differing code point decides, a proper
\* prefix is smaller
RECURSIVE LexLess(_, _)
LexLess(a, b) ==
    IF b = <<>> THEN FALSE
    ELSE IF a = <<>> THEN TRUE
    ELSE IF Head(a) # Head(b) THEN Head(a) < Head(b)
    ELSE LexLess(Tail(a), Tail(b))

\* insertion of x into a list ascending by name, after the equal elements
RECURSIVE InsertByName(_, _)
InsertByName(x, s) ==
    IF s = <<>> THEN <<x>>
    ELSE IF LexLess(x, Head(s)) THEN <<x>> \o s
    ELSE <<Head(s)>> \o InsertByName(x, Tail(s))

RECURSIVE SortedByNameFrom(_, _)
SortedByNameFrom(s, acc) ==
    IF s = <<>> THEN acc ELSE SortedByNameFrom(Tail(s), InsertByName(Head(s), acc))

\* mutant: the pages are packaged in the order they were collected
KeepArrivalOrder(paths) == paths

\* image_paths.sort(key=lambda p: p.name)
SortByName(paths) == SortedByNameFrom(paths, <<>>)

\* pages: the page descriptors of the chapter, when the call is followed
\* from the page loop on
IdleOrder == [called |-> FALSE, chapter |-> 0, pages |-> <<>>, listing |-> <<>>,
              spine |-> <<>>]

\* download_chapter(n) from the sort on: the paths collected in chapter n's
\* images directory are sorted by file name and _create_epub adds one page
\* per path, in that order, to the spine
SortImagePaths(n, listing) ==
    /\ order' = [called |-> TRUE, chapter |-> n, pages |-> <<>>, listing |-> listing,
                 spine |-> SortByName(listing)]
    /\ UNCHANGED <<notifierVars, schedVars, dl, storeVars, served, response,
                   fcd, smtp_config, mail, subscriptions, push, dispatch,
                   loaded, threadVars>>

\* A page descriptor of the remote: NoUrl when page.get("url") is missing or
\* empty, otherwise i for a URL whose last segment is the file name
\* AllNames[i].  The remote is untrusted: descriptors may repeat.
NoUrl == 0

DescriptorLists == UNION {[1..k -> {NoUrl} \cup (1..MaxNames)] : k \in 0..MaxDescriptors}

\* if not url: continue
HasUrl(page) == page # NoUrl

\* mutant: the page loop ends at the first page without a URL
CollectUntilMissing(pages) ==
    LET missing == {i \in 1..Len(pages) : ~HasUrl(pages[i])}
        stop == IF missing = {} THEN Len(pages) + 1
                ELSE CHOOSE i \in missing : \A k \in missing : i <= k
    IN  [i \in 1..(stop - 1) |-> AllNames[pages[i]]]

\* the page loop of download_chapter: a page without a URL is skipped; for
\* every other page dest_path = images_dir / url.split("/")[-1] is
\* downloaded unless the file exists, and appended to image_paths
CollectPaths(pages) ==
    LET kept == SelectSeq(pages, HasUrl)
    IN  [i \in 1..Len(kept) |-> AllNames[kept[i]]]

\* download_chapter from the page loop on, every download succeeding: the
\* paths are collected, sorted by file name, and _create_epub adds one
\* image item and one page per path of the list it is given
PackagePages(pages) ==
    /\ order' = [called |-> TRUE, chapter |-> 0, pages |-> pages,
                 listing |-> CollectPaths(pages),
                 spine |-> SortByName(CollectPaths(pages))]
    /\ UNCHANGED <<notifierVars, schedVars, dl, storeVars, served, response,
                   fcd, smtp_config, mail, subscriptions, push, dispatch,
                   loaded, threadVars>>

\* ============================================================ notification channels
SmtpKeys == {"host", "port", "username", "password", "sender"}

\* a key of smtp_config: not in the dict, in it with the value None (as
\* app.SMTP_CONFIG has it for an environment variable that is not set), or set
SmtpValues == {"missing", "unset", "set"}

SmtpConfigs == [SmtpKeys -> SmtpValues]

\* required_keys - self.smtp_config.keys()
MissingKeys(config) == {k \in SmtpKeys : config[k] = "missing"}

\* ChapterNotifier.send_email_notifications for n entries: nothing for an
\* empty list; KeyError when a key is missing; otherwise one
\* send_email_notification per entry, with whatever values the dict holds.
\* failAt is the entry at which the SMTP exchange raises, 0 when none does.
SendEmailNotifications(config, n, failAt) ==
    IF n = 0 THEN [raised |-> "none", attempts |-> 0, sent |-> 0]
    ELSE IF MissingKeys(config) # {} THEN [raised |-> "KeyError", attempts |-> 0, sent |-> 0]
    ELSE IF failAt = 0 THEN [raised |-> "none", attempts |-> n, sent |-> n]
    ELSE [raised |-> "SMTP", attempts |-> failAt, sent |-> failAt - 1]

IdleMail == [called |-> FALSE, n |-> 0, raised |-> "none", attempts |-> 0, sent |-> 0]

\* a call of send_email_notifications(new_entries, recipient), observed by
\* its caller
SendEmailCall(es, failAt) ==
    /\ failAt <= Len(es)
    /\ LET r == SendEmailNotifications(smtp_config, Len(es), failAt)
       IN  mail' = [called |-> TRUE, n |-> Len(es), raised |-> r.raised,
                    attempts |-> r.attempts, sent |-> r.sent]
    /\ UNCHANGED <<notifierVars, schedVars, dl, storeVars, served, response,
                   fcd, order, smtp_config, subscriptions, push, dispatch,
                   loaded, threadVars>>

\* ------------------------------------------------------------ web push
Endpoints == 1..MaxSubs

\* What webpush() does for one subscription: it returns; it raises
\* WebPushException carrying no response or the push service's response
\* (bad request, not found, gone); it raises something else.
Deliveries ==
    {[kind |-> "ok", status |-> 201], [kind |-> "error", status |-> None]}
    \cup {[kind |-> "webpush", status |-> st] : st \in {None, 400, 404, 410}}

\* bool(e.response): None is false, and a requests.Response is true exactly
\* when it is ok, that is when its status is no 4xx or 5xx
ResponseTruthy(st) == st # None /\ st < 400

\* if e.response and e.response.status_code in [404, 410]
MarkedFailed(d) ==
    d.kind = "webpush" /\ ResponseTruthy(d.status) /\ d.status \in {404, 410}

\* WebPushService.send_notification over the subscriptions subs, webpush
\* behaving as out: the number of successful sends and the subscriptions
\* left after the unsubscribe calls
\* out[i] is what webpush does for the i-th subscription of the list.
SendNotificationResult(subs, out) ==
    LET failed == {subs[i] : i \in {k \in 1..Len(subs) : MarkedFailed(out[k])}}
    IN  [count |-> Cardinality({i \in 1..Len(subs) : out[i].kind = "ok"}),
         after |-> SelectSeq(subs, LAMBDA e : e \notin failed)]

IdlePush == [called |-> FALSE, before |-> <<>>, out |-> <<>>, after |-> <<>>, count |-> 0]

\* the list comprehension of unsubscribe
WithoutEndpoint(subs, e) == SelectSeq(subs, LAMBDA x : x # e)

\* no request thread is inside subscribe or unsubscribe
IdlePushCall == [pc |-> "idle", endpoint |-> 0, filtered |-> <<>>]

\* no subscribe or unsubscribe call has returned.  was and stored tell
\* whether the endpoint was in the list before and after the call, grown is
\* by how much the list grew, result is the value returned.
IdlePushRet == [op |-> "none", was |-> FALSE, stored |-> FALSE, grown |-> 0,
                result |-> FALSE]

PushReturn(op, e, before, after, result) ==
    [op |-> op, was |-> e \in Range(before),
     stored |-> e \in Range(after), grown |-> Len(after) - Len(before),
     result |-> result]

\* mutant: subscribe appends without looking for the endpoint
AppendAlways(subs, e) == Append(subs, e)

\* the loop and the append of subscribe: the list afterwards
WithEndpoint(subs, e) ==
    IF e \in Range(subs) THEN subs ELSE Append(subs, e)

\* removed = len(self.subscriptions) < original_count
Removed(before, after) == Len(after) < Len(before)

\* WebPushService.subscribe with a well-formed subscription: appended unless
\* its endpoint is already there; True is returned either way
Subscribe(e) ==
    /\ subscriptions' = WithEndpoint(subscriptions, e)
    /\ pushRet' = PushReturn("subscribe", e, subscriptions, subscriptions', TRUE)
    /\ UNCHANGED <<notifierVars, schedVars, dl, storeVars, served, response,
                   fcd, order, smtp_config, mail, push, dispatch, loaded,
                   pushCall, subscribed, lookup, startResult, siblings, reply, asset,
                   notified>>

\* WebPushService.unsubscribe
Unsubscribe(e) ==
    /\ subscriptions' = WithoutEndpoint(subscriptions, e)
    /\ pushRet' = PushReturn("unsubscribe", e, subscriptions, subscriptions',
                             Removed(subscriptions, subscriptions'))
    /\ UNCHANGED <<notifierVars, schedVars, dl, storeVars, served, response,
                   fcd, order, smtp_config, mail, push, dispatch, loaded,
                   pushCall, subscribed, lookup, startResult, siblings, reply, asset,
                   notified>>

\* The push endpoints of app.py are plain functions, which the server runs
\* on worker threads: calls of subscribe and unsubscribe overlap.  Neither
\* takes a lock.  subscribe, first part: the loop over self.subscriptions
\* looking for the endpoint; it returns True when it finds it.
SubscribeCheck(t, e) ==
    /\ pushCall[t].pc = "idle"
    /\ IF e \in Range(subscriptions)
       THEN /\ subscribed' = subscribed \cup {e}
            /\ UNCHANGED pushCall
       ELSE /\ pushCall' = [pushCall EXCEPT ![t] = [IdlePushCall EXCEPT
                                                     !.pc = "append", !.endpoint = e]]
            /\ UNCHANGED subscribed
    /\ UNCHANGED <<notifierVars, schedVars, dl, storeVars, served, response,
                   callVars, loaded, lookup, endpointVars>>

\* subscribe, second part: self.subscriptions.append(subscription); return True
SubscribeAppend(t) ==
    /\ pushCall[t].pc = "append"
    /\ Len(subscriptions) < MaxStored
    /\ subscriptions' = Append(subscriptions, pushCall[t].endpoint)
    /\ subscribed' = subscribed \cup {pushCall[t].endpoint}
    /\ pushCall' = [pushCall EXCEPT ![t] = IdlePushCall]
    /\ UNCHANGED <<notifierVars, schedVars, dl, storeVars, served, response,
                   fcd, order, smtp_config, mail, push, dispatch, loaded, lookup, endpointVars>>

\* unsubscribe, first part: the list comprehension builds the new list from
\* the list it finds
UnsubscribeFilter(t, e) ==
    /\ pushCall[t].pc = "idle"
    /\ pushCall' = [pushCall EXCEPT ![t] =
                       [pc |-> "assign", endpoint |-> e,
                        filtered |-> WithoutEndpoint(subscriptions, e)]]
    /\ UNCHANGED <<notifierVars, schedVars, dl, storeVars, served, response,
                   callVars, loaded, subscribed, lookup, endpointVars>>

\* unsubscribe, second part: self.subscriptions = <the new list>
UnsubscribeAssign(t) ==
    /\ pushCall[t].pc = "assign"
    /\ subscriptions' = pushCall[t].filtered
    /\ subscribed' = subscribed \ {pushCall[t].endpoint}
    /\ pushCall' = [pushCall EXCEPT ![t] = IdlePushCall]
    /\ UNCHANGED <<notifierVars, schedVars, dl, storeVars, served, response,
                   fcd, order, smtp_config, mail, push, dispatch, loaded, lookup, endpointVars>>

\* WebPushService.send_notification, observed by its caller
SendNotification(out) ==
    /\ LET r == SendNotificationResult(subscriptions, out)
       IN  /\ subscriptions' = r.after
           /\ push' = [called |-> TRUE, before |-> subscriptions, out |-> out,
                       after |-> r.after, count |-> r.count]
    /\ UNCHANGED <<notifierVars, schedVars, dl, storeVars, served, response,
                   fcd, order, smtp_config, mail, dispatch, loaded, threadVars>>

\* ------------------------------------------------------------ combined dispatch
\* new_entries is the list of chapter numbers of the entries; chapters is
\* results["chapters"], the numbers of the entries appended to it
IdleDispatch == [pc |-> "idle", new_entries |-> <<>>, n |-> 0, rcpt |-> FALSE,
                 web |-> FALSE, idx |-> 0, emailRaised |-> FALSE,
                 email_sent |-> 0, push_sent |-> 0, chapters |-> <<>>]

\* mutant: an exception of the e-mail channel ends the call
EmailErrorPropagates(raised, web) ==
    IF raised THEN "raised" ELSE IF web THEN "push" ELSE "done"

\* the e-mail channel's exception is caught and logged: what follows depends
\* on send_web_push alone
AfterEmail(raised, web) == IF web THEN "push" ELSE "done"

\* send_combined_notifications(new_entries, email_recipient, send_web_push):
\* an empty list returns the zero counts at once
SendCombinedNotifications(es, rcpt, web) ==
    /\ dispatch.pc \in {"idle", "done"}
    /\ dispatch' = IF es = <<>> THEN [IdleDispatch EXCEPT !.pc = "done"]
                   ELSE [IdleDispatch EXCEPT !.pc = "email", !.new_entries = es,
                                             !.n = Len(es),
                                             !.rcpt = rcpt, !.web = web]
    /\ UNCHANGED <<notifierVars, schedVars, dl, storeVars, served, response,
                   fcd, order, smtp_config, mail, subscriptions, push,
                   loaded, threadVars>>

\* the e-mail channel: send_email_notifications inside try/except Exception
DispatchEmail(failAt) ==
    /\ dispatch.pc = "email"
    /\ failAt <= dispatch.n
    /\ LET r == SendEmailNotifications(smtp_config, dispatch.n, failAt)
           raised == dispatch.rcpt /\ r.raised # "none"
       IN  dispatch' = [dispatch EXCEPT
                          !.emailRaised = raised,
                          !.email_sent = IF dispatch.rcpt /\ ~raised THEN dispatch.n ELSE 0,
                          !.pc = AfterEmail(raised, dispatch.web),
                          !.idx = 1]
    /\ UNCHANGED <<notifierVars, schedVars, dl, storeVars, served, response,
                   fcd, order, smtp_config, mail, subscriptions, push,
                   loaded, threadVars>>

\* the push channel, one entry: send_notification, its count added to
\* push_sent, the entry appended to chapters
DispatchPush(out) ==
    /\ dispatch.pc = "push"
    /\ LET r == SendNotificationResult(subscriptions, out)
       IN  /\ subscriptions' = r.after
           /\ dispatch' = [dispatch EXCEPT
                             !.push_sent = @ + r.count,
                             !.chapters = Append(@, dispatch.new_entries[dispatch.idx]),
                             !.idx = @ + 1,
                             !.pc = IF dispatch.idx = dispatch.n THEN "done" ELSE "push"]
    /\ UNCHANGED <<notifierVars, schedVars, dl, storeVars, served, response,
                   fcd, order, smtp_config, mail, push, loaded, threadVars>>

\* ------------------------------------------------------------ latest number
\* no get_latest_number call has been made.  first and second are the lists
\* the two reads of self.entries gave, second being first when the call
\* returned after the first read; ever tells whether a refresh had succeeded
\* when the call was made.
IdleLookup == [pc |-> "idle", ever |-> FALSE, first |-> <<>>, second |-> <<>>,
               raised |-> FALSE, result |-> None]

\* app.latest_available calls notifier.get_latest_number(), whose first
\* statement reads self.entries and returns None when the list is empty
LatestAvailableTest ==
    /\ lookup.pc \in {"idle", "returned"}
    /\ lookup' = [IdleLookup EXCEPT
                     !.pc = IF entries = <<>> THEN "returned" ELSE "max",
                     !.ever = loaded.ever,
                     !.first = entries, !.second = entries]
    /\ UNCHANGED <<notifierVars, schedVars, dl, storeVars, served, response,
                   callVars, loaded, pushCall, subscribed, endpointVars>>

\* its second statement reads self.entries again and takes the maximum;
\* max() of an empty sequence raises ValueError
LatestAvailableMax ==
    /\ lookup.pc = "max"
    /\ lookup' = [lookup EXCEPT
                     !.pc = "returned",
                     !.second = entries,
                     !.raised = (entries = <<>>),
                     !.result = IF entries = <<>> THEN None ELSE MaxNumber(entries)]
    /\ UNCHANGED <<notifierVars, schedVars, dl, storeVars, served, response,
                   callVars, loaded, pushCall, subscribed, endpointVars>>

\* ============================================================ written files
\* A path is the sequence of its segments below the storage directory; the
\* path of a page URL is the sequence of the segments after the host.
Segments == {"01.jpg", "..", ".", ""}

UrlOf(up, name) == [i \in 1..up |-> ".."] \o <<name>>

Urls == {UrlOf(up, name) : up \in 0..MaxUp, name \in Segments}

UrlLists == UNION {[1..k -> Urls] : k \in 0..MaxUrls}

\* mutant: the file is named by the whole path of the URL
WholePath(url) == url

\* filename = url.split("/")[-1]: the text after the last slash
Basename(url) == <<url[Len(url)]>>

\* chapter_dir = self.storage_dir / str(chapter)
ChapterDir(n) == <<ToString(n)>>

\* images_dir = chapter_dir / "images"
ImagesDir(n) == ChapterDir(n) \o <<"images">>

\* dest_path = images_dir / filename
DestPath(n, url) == ImagesDir(n) \o Basename(url)

\* epub_path = chapter_dir / f"onepiece_{chapter}.epub"
EpubFile(n) == ChapterDir(n) \o <<"onepiece_" \o ToString(n) \o ".epub">>

\* the file the operating system opens for a path: empty and "." segments
\* name the directory itself, ".." its parent; a path that leaves the
\* storage directory keeps its leading ".."
RECURSIVE ResolveFrom(_, _)
ResolveFrom(path, acc) ==
    IF path = <<>> THEN acc
    ELSE LET h == Head(path)
         IN  IF h \in {"", "."} THEN ResolveFrom(Tail(path), acc)
             ELSE IF h = ".."
                  THEN IF acc = <<>> \/ acc[Len(acc)] = ".."
                       THEN ResolveFrom(Tail(path), Append(acc, ".."))
                       ELSE ResolveFrom(Tail(path), SubSeq(acc, 1, Len(acc) - 1))
                  ELSE ResolveFrom(Tail(path), Append(acc, h))

Resolve(path) == ResolveFrom(path, <<>>)

\* ensure_dir(images_dir): the directories that exist when the page loop begins
Directories(n) == {ChapterDir(n), ImagesDir(n)}

\* the page loop of download_chapter: _download_image returns at once when
\* dest_path exists and otherwise creates the file dest_path resolves to
RECURSIVE WrittenFrom(_, _, _)
WrittenFrom(n, urls, files) ==
    IF urls = <<>> THEN files
    ELSE LET dest == Resolve(DestPath(n, Head(urls)))
         IN  IF dest \in Directories(n) \cup files
             THEN WrittenFrom(n, Tail(urls), files)
             ELSE WrittenFrom(n, Tail(urls), files \cup {dest})

WrittenAssets(n, urls) == WrittenFrom(n, urls, {})

\* _create_epub opens every collected path for reading before it writes the
\* package: a path that names a directory raises IsADirectoryError
ReadRaises(n, urls) ==
    \E i \in 1..Len(urls) : Resolve(DestPath(n, urls[i])) \in Directories(n)

IdleAsset == [pc |-> "idle", chapter |-> 0, urls |-> <<>>, written |-> {},
              packaged |-> FALSE]

\* download_chapter(n) for a chapter whose page URLs are urls, every request
\* answered: the files it creates or overwrites
DownloadPages(n, urls) ==
    /\ asset.pc = "idle"
    /\ asset' = [pc |-> "returned", chapter |-> n, urls |-> urls,
                 written |-> WrittenAssets(n, urls)
                             \cup (IF ReadRaises(n, urls) THEN {} ELSE {EpubFile(n)}),
                 packaged |-> ~ReadRaises(n, urls)]
    /\ UNCHANGED <<notifierVars, schedVars, dl, storeVars, served, response, callVars,
                   loaded, pushCall, subscribed, lookup, startResult, siblings, reply,
                   pushRet, notified>>

\* the caller takes the result; the next call may begin
DownloadPagesReturn ==
    /\ asset.pc = "returned"
    /\ asset' = IdleAsset
    /\ UNCHANGED <<notifierVars, schedVars, dl, storeVars, served, response, callVars,
                   loaded, pushCall, subscribed, lookup, startResult, siblings, reply,
                   pushRet, notified>>

\* ============================================================ process restart
\* The process ends, at any point of whatever it was doing, and a new one
\* constructs the downloader, the notifier (whose constructor refreshes the
\* catalog once) and the scheduler over the storage directory as it is.
ProcessRestart(resp) ==
    /\ entries' = Refresh(<<>>, resp)
    /\ loaded' = EverLoaded(NeverLoaded, resp)
    /\ cfu' = [called |-> FALSE, latest |-> 0, failed |-> FALSE,
               snapshot |-> <<>>, result |-> <<>>]
    /\ current_latest' = InitialLatest(dirs, entries')
    /\ state' = "stopped"
    /\ job' = 0
    /\ jobCount' = 0
    /\ instances' = [j \in JobIds |-> 0]
    /\ poolAlive' = TRUE
    /\ poll' = [j \in JobIds |-> IdlePoll]
    /\ dl' = [c \in Callers |-> IdleDl]
    /\ served' = "none"
    /\ lastFailed' = {}
    /\ unavailable' = {}
    /\ response' = [status |-> 0, err |-> "none"]
    /\ fcd' = IdleFcd
    /\ order' = IdleOrder
    /\ mail' = IdleMail
    /\ push' = IdlePush
    /\ dispatch' = IdleDispatch
    /\ pushCall' = [t \in Requests |-> IdlePushCall]
    /\ subscribed' = {}
    /\ lookup' = IdleLookup
    /\ startResult' = "none"
    /\ reply' = IdleReply
    /\ asset' = IdleAsset
    /\ pushRet' = IdlePushRet
    /\ UNCHANGED <<recipient, storeVars, siblings, smtp_config, subscriptions, notified>>

\* ============================================================ specifications
\* The state after construction: the chapters in stored were downloaded by
\* an earlier run, sib are the PDF and CBZ files beside their packages, es is
\* what the notifier's first refresh left in the cache.
InitFiles(stored, es, rcpt, sib) ==
    /\ entries = es
    /\ cfu = [called |-> FALSE, latest |-> 0, failed |-> FALSE,
              snapshot |-> <<>>, result |-> <<>>]
    /\ dirs = [n \in Chapters |-> n \in stored]
    /\ images = [n \in Chapters |->
                   [p \in PageNames |-> IF n \in stored THEN "complete" ELSE "absent"]]
    /\ epub = [n \in Chapters |-> IF n \in stored THEN "complete" ELSE "absent"]
    /\ current_latest = InitialLatest(dirs, es)
    /\ recipient = rcpt
    /\ state = "stopped"
    /\ job = 0
    /\ jobCount = 0
    /\ instances = [j \in JobIds |-> 0]
    /\ poolAlive = TRUE
    /\ poll = [j \in JobIds |-> IdlePoll]
    /\ dl = [c \in Callers |-> IdleDl]
    /\ served = "none"
    /\ lastFailed = {}
    /\ unavailable = {}
    /\ response = [status |-> 0, err |-> "none"]
    /\ fcd = IdleFcd
    /\ order = IdleOrder
    /\ mail = IdleMail
    /\ push = IdlePush
    /\ dispatch = IdleDispatch
    /\ loaded = IF es = <<>> THEN NeverLoaded ELSE [ever |-> TRUE, last |-> es]
    /\ pushCall = [t \in Requests |-> IdlePushCall]
    /\ subscribed = {}
    /\ lookup = IdleLookup
    /\ startResult = "none"
    /\ siblings = sib
    /\ reply = IdleReply
    /\ asset = IdleAsset
    /\ pushRet = IdlePushRet
    /\ notified = [n \in Chapters |-> 0]

\* ... with no PDF or CBZ file in the storage directory
InitCore(stored, es, rcpt) == InitFiles(stored, es, rcpt, NoSiblings)

\* ... with SMTP fully configured and nobody subscribed to push messages
InitWith(stored, es, rcpt) ==
    /\ InitCore(stored, es, rcpt)
    /\ smtp_config = [k \in SmtpKeys |-> "set"]
    /\ subscriptions = <<>>

Init ==
    \E stored \in SUBSET Chapters, es \in Snapshots, rcpt \in BOOLEAN :
        InitWith(stored, es, rcpt)

Next ==
    \/ Start
    \/ Stop
    \/ \E j \in JobIds : TimerFire(j)
    \/ \E j \in JobIds : PollBegin(j)
    \/ \E j \in JobIds : PollCheck(j)
    \/ \E j \in JobIds : PollNext(j)
    \/ \E j \in JobIds : PollDownload(j)
    \/ \E j \in JobIds : PollSucceed(j)
    \/ \E j \in JobIds : PollNotify(j)
    \/ \E j \in JobIds : PollFail(j)
    \/ \E j \in JobIds : PollDone(j)

Spec == Init /\ [][Next]_vars

InitDownload ==
    \E stored \in SUBSET Chapters : InitWith(stored, <<>>, FALSE)

NextDownload ==
    \/ \E r \in Requests, n \in Chapters : DownloadEndpoint(r, n)
    \/ \E r \in Requests : RequestDownload(r)
    \/ \E r \in Requests : DownloadRespond(r)

SpecDownload == InitDownload /\ [][NextDownload]_vars

\* One client downloads chapters while others fetch the packages.
FirstRequest == MaxJobs + 1

NextServe ==
    \/ \E n \in Chapters : DownloadEndpoint(FirstRequest, n)
    \/ RequestDownload(FirstRequest)
    \/ DownloadRespond(FirstRequest)
    \/ \E n \in Chapters : GetChapterEpub(n)

SpecServe == InitDownload /\ [][NextServe]_vars

\* One client requests the download of the same chapter again and again.
RepeatedChapter == 1

NextRepeat ==
    \/ DownloadEndpoint(FirstRequest, RepeatedChapter)
    \/ RequestDownload(FirstRequest)
    \/ DownloadRespond(FirstRequest)

SpecRepeat == InitDownload /\ [][NextRepeat]_vars

\* The requests that work on what the scheduler works on: downloads of a
\* chapter and notify requests, whose check_for_update refreshes the
\* catalog, over any storage and catalog the scheduler was constructed with.
InitOnDemand ==
    \E stored \in SUBSET Chapters, es \in Snapshots : InitWith(stored, es, FALSE)

NextOnDemand ==
    \/ DownloadEndpoint(FirstRequest, RepeatedChapter)
    \/ RequestDownload(FirstRequest)
    \/ DownloadRespond(FirstRequest)
    \/ \E latest \in Latests, resp \in Responses : NotifyEndpoint(latest, resp)

SpecOnDemand == InitOnDemand /\ [][NextOnDemand]_vars

InitNotifier ==
    \E es \in Snapshots : InitWith({}, es, FALSE)

NextNotifier ==
    \/ \E latest \in Latests, resp \in Responses : NotifyEndpoint(latest, resp)
    \/ \E resp \in Responses : GetAvailableChapters(resp)

SpecNotifier == InitNotifier /\ [][NextNotifier]_vars

\* The scheduler of a process that has already stored the newest chapter:
\* no catalog snapshot holds a number above the watermark, every poll finds
\* nothing new.  start may be called again while the scheduler runs.
InitRestart ==
    \E stored \in SUBSET Chapters, es \in Snapshots :
        /\ MaxChapter \in stored
        /\ InitWith(stored, es, FALSE)

NextRestart ==
    \/ Start
    \/ Restart
    \/ Stop
    \/ \E j \in JobIds : TimerFire(j)
    \/ \E j \in JobIds : PollBegin(j)
    \/ \E j \in JobIds : PollCheck(j)
    \/ \E j \in JobIds : PollDone(j)

SpecRestart == InitRestart /\ [][NextRestart]_vars

\* The scheduler's life: constructed over any storage and catalog, started
\* and stopped, the timer submitting the job and a worker thread taking it.
NextLifecycle ==
    \/ Start
    \/ Stop
    \/ \E j \in JobIds : TimerFire(j)
    \/ \E j \in JobIds : PollBegin(j)

SpecLifecycle == Init /\ [][NextLifecycle]_vars

\* fetch_chapter_data called on every response the remote can give
NextResolve ==
    \E n \in Chapters, resp \in ChapterResponses, own \in BOOLEAN :
        FetchChapterDataCall(n, resp, own)

SpecResolve == InitWith({}, <<>>, FALSE) /\ [][NextResolve]_vars

\* the sort of download_chapter on every list of collected image paths
NextOrder == \E n \in Chapters, listing \in Listings : SortImagePaths(n, listing)

SpecOrder == InitWith({}, <<>>, FALSE) /\ [][NextOrder]_vars

\* download_chapter on every list of page descriptors
NextPackage == \E pages \in DescriptorLists : PackagePages(pages)

SpecPackage == InitWith({}, <<>>, FALSE) /\ [][NextPackage]_vars

\* send_email_notifications under every SMTP configuration
InitMail ==
    \E config \in SmtpConfigs :
        /\ InitCore({}, <<>>, FALSE)
        /\ smtp_config = config
        /\ subscriptions = <<>>

NextMail ==
    \E es \in Snapshots, failAt \in 0..MaxLen : SendEmailCall(es, failAt)

SpecMail == InitMail /\ [][NextMail]_vars

\* the push service: browsers subscribe and unsubscribe, messages are sent
NextPush ==
    \/ \E e \in Endpoints : Subscribe(e)
    \/ \E e \in Endpoints : Unsubscribe(e)
    \/ \E out \in [1..Len(subscriptions) -> Deliveries] : SendNotification(out)

SpecPush == InitWith({}, <<>>, FALSE) /\ [][NextPush]_vars

\* GET /api/latest on one request thread while other requests refresh the
\* catalog
NextLatest ==
    \/ LatestAvailableTest
    \/ LatestAvailableMax
    \/ \E resp \in Responses : GetAvailableChapters(resp)

SpecLatest == InitNotifier /\ [][NextLatest]_vars

\* browsers subscribe and unsubscribe at the same time, each request on its
\* own worker thread
NextPushRace ==
    \/ \E t \in Requests, e \in Endpoints : SubscribeCheck(t, e)
    \/ \E t \in Requests : SubscribeAppend(t)
    \/ \E t \in Requests, e \in Endpoints : UnsubscribeFilter(t, e)
    \/ \E t \in Requests : UnsubscribeAssign(t)

SpecPushRace == InitWith({}, <<>>, FALSE) /\ [][NextPushRace]_vars

\* send_combined_notifications with SMTP configured, not configured (every
\* value None) or without its keys, and any set of subscribers
UniformConfigs == {[k \in SmtpKeys |-> v] : v \in SmtpValues}

\* the lists sequential subscribe calls can build: no endpoint twice
SubscriptionLists ==
    {s \in UNION {[1..k -> Endpoints] : k \in 0..MaxSubs} :
        \A i, j \in 1..Len(s) : s[i] = s[j] => i = j}

InitDispatch ==
    \E config \in UniformConfigs, subs \in SubscriptionLists :
        /\ InitCore({}, <<>>, FALSE)
        /\ smtp_config = config
        /\ subscriptions = subs

NextDispatch ==
    \/ \E es \in Snapshots, rcpt \in BOOLEAN, web \in BOOLEAN :
          SendCombinedNotifications(es, rcpt, web)
    \/ \E failAt \in 0..MaxLen : DispatchEmail(failAt)
    \/ \E out \in [1..Len(subscriptions) -> Deliveries] : DispatchPush(out)

SpecDispatch == InitDispatch /\ [][NextDispatch]_vars

\* One client downloads a chapter again and again while the process may be
\* restarted at any time.
NextReboot ==
    \/ DownloadEndpoint(FirstRequest, RepeatedChapter)
    \/ RequestDownload(FirstRequest)
    \/ DownloadRespond(FirstRequest)
    \/ \E resp \in Responses : ProcessRestart(resp)

SpecReboot == InitDownload /\ [][NextReboot]_vars

\* a catalog snapshot in which every chapter number occurs once
UniqueNumbers(es) == \A i, k \in 1..Len(es) : es[i] = es[k] => i = k

\* the catalog lists no chapter other than RepeatedChapter
OneChapterCatalog(es) == Range(es) \subseteq {RepeatedChapter}

\* The scheduler with a recipient over a catalog of one chapter whose
\* snapshots list every number once, when start may be called again while
\* the scheduler runs.
NextOverlap ==
    \/ Start
    \/ Restart
    \/ \E j \in JobIds : TimerFire(j)
    \/ \E j \in JobIds : PollBegin(j)
    \/ \E j \in JobIds :
          PollCheck(j) /\ UniqueNumbers(entries') /\ OneChapterCatalog(entries')
    \/ \E j \in JobIds : PollNext(j)
    \/ \E j \in JobIds : PollDownload(j)
    \/ \E j \in JobIds : PollSucceed(j)
    \/ \E j \in JobIds : PollNotify(j)
    \/ \E j \in JobIds : PollFail(j)
    \/ \E j \in JobIds : PollDone(j)

SpecOverlap == InitWith({}, <<>>, TRUE) /\ [][NextOverlap]_vars

\* what the worker thread running poll j does next, every request answered
PollStep(j) ==
    \/ PollBegin(j)
    \/ PollCheck(j) /\ UniqueNumbers(entries') /\ OneChapterCatalog(entries')
    \/ PollNext(j)
    \/ PollDownload(j)
    \/ PollSucceed(j)
    \/ PollNotify(j)
    \/ PollFail(j)
    \/ PollDone(j)

\* The scheduler with a recipient over a catalog of one chapter, when the
\* remote may leave a request unanswered.
NextLive ==
    \/ Start
    \/ \E j \in JobIds : TimerFire(j)
    \/ \E j \in JobIds : PollStep(j)
    \/ \E j \in JobIds : PollBlocks(j)
    \/ \E j \in JobIds : DownloadBlocks(j)

\* The worker thread is scheduled: a poll that can take a step takes one.
\* Nothing obliges the remote to answer.
SpecLive ==
    /\ InitWith({}, <<>>, TRUE)
    /\ [][NextLive]_vars
    /\ \A j \in JobIds : WF_vars(PollStep(j))

\* download_chapter into an empty storage directory, over every list of page
\* URLs the remote may return
NextPaths ==
    \/ \E n \in Chapters, urls \in UrlLists : DownloadPages(n, urls)
    \/ DownloadPagesReturn

InitPaths == InitWith({}, <<>>, FALSE)

SpecPaths == InitPaths /\ [][NextPaths]_vars

\* the PDF and CBZ files an earlier run may have left beside stored packages
SiblingFiles(stored) ==
    {sib \in [Chapters -> [Formats -> BOOLEAN]] :
        \A n \in Chapters \ stored : sib[n] = NoSiblings[n]}

\* the storage endpoints: delete_chapter, download_pdf, download_cbz and
\* get_chapter_epub on a storage directory no download is writing to
InitStorage ==
    \E stored \in SUBSET Chapters :
        \E sib \in SiblingFiles(stored) :
            /\ InitFiles(stored, <<>>, FALSE, sib)
            /\ smtp_config = [k \in SmtpKeys |-> "set"]
            /\ subscriptions = <<>>

NextStorage ==
    \/ \E n \in Chapters : DeleteChapter(n)
    \/ \E n \in Chapters : DownloadPdf(n)
    \/ \E n \in Chapters : DownloadCbz(n)
    \/ \E n \in Chapters : GetChapterEpub(n)

SpecStorage == InitStorage /\ [][NextStorage]_vars


\* ============================================================ properties
InProgress(c) == dl[c].pc \notin {"idle", "returned", "raised"}

\* caller c holds a file of its chapter open for writing
Writing(c) == dl[c].pc \in {"write", "epubwrite"}

Ascending(s) == \A i, k \in 1..Len(s) : i < k => s[i] <= s[k]

\* poll j has gone through its whole batch
PollAtEnd(j) == poll[j].pc = "loop" /\ poll[j].idx > Len(poll[j].batch)

\* the step in which poll j handles the exception of download_chapter
FailStep(j) == poll[j].pc = "wait" /\ dl[j].pc = "raised" /\ poll'[j].pc # "wait"

\* the step in which poll j handles the return of download_chapter
SuccessStep(j) == poll[j].pc = "wait" /\ dl[j].pc = "returned" /\ poll'[j].pc # "wait"

\* C1: two download_chapter calls for the same chapter are serialized: they
\* never hold files of that chapter open for writing at the same time, and
\* no call packages an image file that is still truncated.
C1_SerializedPerChapter ==
    /\ \A c1, c2 \in Callers :
          (c1 # c2 /\ Writing(c1) /\ Writing(c2)) => dl[c1].chapter # dl[c2].chapter
    /\ \A c \in Callers : ~dl[c].truncated

\* C2: the watermark current_latest never decreases, whatever mix of
\* successful and failed downloads and notifications the polls see.
C2_WatermarkMonotone == [][current_latest' >= current_latest]_vars

\* a poll that has seen a successful and a failed download
C2_Witness ==
    \E j \in JobIds :
        /\ poll[j].pc = "loop"
        /\ poll[j].ok # {}
        /\ poll[j].attempted \ poll[j].ok # {}

C4_FailureIsolated ==
    /\ [](\A j \in JobIds : PollAtEnd(j) => poll[j].attempted = 1..Len(poll[j].batch))
    /\ [][\A j \in JobIds : FailStep(j) => current_latest' = current_latest]_vars

\* a finished batch in which an entry after a failed one was attempted
C4_Witness ==
    \E j \in JobIds :
        /\ PollAtEnd(j)
        /\ \E i, k \in poll[j].attempted : i \notin poll[j].ok /\ k > i

\* C5 as stated: the batch is ascending, a successful download sets the
\* watermark to max(watermark, number), and every entry whose download
\* succeeded, and no other, has had its notification dispatched once its
\* turn is over.
C5_NotifiedEachSuccess ==
    \A j \in JobIds :
        /\ Ascending(poll[j].batch)
        /\ poll[j].pc = "loop" => poll[j].mailed = poll[j].ok

\* C5 amended: the batch is processed in ascending order; a successful
\* download sets the watermark to max(watermark, number); when a recipient
\* is configured send_email_notifications is then called for exactly that
\* entry, and with no recipient no notification is dispatched at all; an
\* entry whose download failed is never notified.
C5_NotifiedWhenRecipient ==
    /\ [](\A j \in JobIds :
            /\ Ascending(poll[j].batch)
            /\ poll[j].attempted \in {1..k : k \in 0..Len(poll[j].batch)}
            /\ poll[j].mailed \subseteq poll[j].ok
            /\ poll[j].pc = "notify" =>
                  /\ poll[j].idx \in poll[j].ok
                  /\ current_latest >= poll[j].batch[poll[j].idx]
            /\ poll[j].pc = "loop" =>
                  poll[j].mailed = (IF recipient THEN poll[j].ok ELSE {}))
    /\ [][\A j \in JobIds :
            SuccessStep(j) =>
                current_latest' = Max(current_latest, poll[j].batch[poll[j].idx])]_vars

\* with a recipient: a finished batch with a notified success and a failure
C5_Witness ==
    \E j \in JobIds :
        /\ recipient
        /\ PollAtEnd(j)
        /\ poll[j].mailed # {}
        /\ poll[j].attempted \ poll[j].ok # {}

\* C6: at no time are two executions of the poll job in progress.
C6_SingleFlight ==
    Cardinality({j \in JobIds : poll[j].pc # "idle"}) <= 1

\* C7: check_for_update returns exactly the entries of the refreshed
\* snapshot whose number is above current_latest, in ascending order.
C7_CheckForUpdateExact ==
    cfu.called =>
        /\ Ascending(cfu.result)
        /\ \A n \in Chapters :
              Count(cfu.result, n) = IF n > cfu.latest THEN Count(cfu.snapshot, n) ELSE 0

\* an unordered snapshot with two new entries, and a call that finds nothing
C7_Witness ==
    /\ cfu.called
    /\ Len(cfu.result) >= 2
    /\ ~Ascending(cfu.snapshot)

\* the step of a check_for_update call whose catalog fetch failed
FailedCheckStep == cfu' # cfu /\ cfu'.failed

\* C8: when the catalog fetch fails the cached snapshot stays exactly as it
\* was, the call returns, and check_for_update answers from that snapshot.
C8_RefreshFailSoft ==
    [][FailedCheckStep =>
          /\ entries' = entries
          /\ cfu'.snapshot = entries
          /\ \A n \in Chapters :
                Count(cfu'.result, n) = IF n > cfu'.latest THEN Count(entries, n) ELSE 0]_vars

\* a failed refresh over a non-empty cache that still yields new entries
C8_Witness ==
    /\ cfu.called
    /\ cfu.failed
    /\ cfu.snapshot = entries
    /\ cfu.result # <<>>

\* C9: a file that exists at an asset's final path is completely written.
C9_NoPartialAsset ==
    \A n \in Chapters, p \in PageNames : images[n][p] # "partial"

\* C10: the final package path never holds an incomplete package, and the
\* EPUB endpoint never returns one.
C10_NoPartialPackage ==
    /\ \A n \in Chapters : epub[n] # "partial"
    /\ served # "partial"

\* the step in which caller c sends the request for an image
RequestStep(c) == dl[c].pc = "get" /\ dl'[c].got # dl[c].got

\* the step in which caller c finds a file at the image's destination
ExistsStep(c) ==
    /\ dl[c].pc = "exists"
    /\ dl'[c] # dl[c]
    /\ images[dl[c].chapter][dl[c].pages[dl[c].k]] # "absent"

\* C11: download_chapter(n) called again returns the same package path as
\* before, the one path of chapter n, and requests no image whose file is
\* already in storage.
C11_DownloadIdempotent ==
    /\ [](\A c \in Callers :
            dl[c].pc = "returned" => dl[c].path = EpubPath(dl[c].chapter))
    /\ [][\A c \in Callers :
            RequestStep(c) =>
                images[dl[c].chapter][dl[c].pages[dl[c].k]] = "absent"]_vars

\* after a download answered with 201, a call that returned the package of
\* a chapter with pages without requesting any of them
C11_Witness ==
    \E c \in Callers :
        /\ response.status = 201
        /\ dl[c].pc = "returned"
        /\ dl[c].pages # <<>>
        /\ dl[c].got = {}
        /\ epub[dl[c].chapter] = "complete"

\* C12: when a file exists at the destination, whatever it holds,
\* _download_image sends no request and leaves every stored file as it is.
C12_ExistingFileKept ==
    [][\A c \in Callers :
          ExistsStep(c) =>
              /\ images' = images
              /\ dl'[c].got = dl[c].got
              /\ dl'[c].pc \in {"exists", "read"}]_vars

\* a call that went past a truncated file without requesting it
C12_Witness ==
    \E c \in Callers :
        /\ dl[c].pc = "read"
        /\ dl[c].got = {}
        /\ \E p \in Range(dl[c].pages) : images[dl[c].chapter][p] = "partial"

\* C13: once chapter n's package is completely written, no download request
\* rewrites or replaces the file and nothing removes it (no deletion
\* endpoint is called here).
C13_PackageImmutable ==
    [][\A n \in Chapters : epub[n] = "complete" => epub'[n] = "complete"]_vars

\* "02.jpg", "03-04.jpg" and "05.jpg"
Name02 == AllNames[2]

Name0304 == AllNames[3]

Name05 == AllNames[4]

C15_FailureClasses ==
    (fcd.called /\ ~fcd.resp.neterr) =>
        /\ (fcd.resp.status = 404 \/ fcd.resp.marker) =>
              (fcd.err = "NotAvailable" /\ ~fcd.searched)
        /\ (fcd.resp.status = 200 /\ ~fcd.resp.marker /\ fcd.resp.block = "none") =>
              fcd.err = "ParseError"
        /\ fcd.err = "NotAvailable" => (fcd.resp.status = 404 \/ fcd.resp.marker)
        /\ fcd.err = "ParseError" => fcd.resp.block = "none"

\* a page that carries the notice and a well-formed data block
C15_Witness ==
    /\ fcd.called
    /\ fcd.resp.status = 200
    /\ fcd.resp.marker
    /\ fcd.resp.block = "ok"
    /\ fcd.err = "NotAvailable"

\* C16: a failed download is answered with 404 or 500, and with 404 exactly
\* when the remote declared the chapter unavailable: parse, storage and
\* network failures are answered with 500.
C16_FailureMapping ==
    response.status # 0 =>
        /\ response.err # "none" => response.status \in {404, 500}
        /\ response.status = 404 <=> response.err = "NotAvailable"

\* C17: a chapter that a finished poll found declared unavailable is not
\* downloaded again by a later poll.
C17_UnavailableTerminal ==
    \A j \in JobIds : poll[j].pc = "wait" => dl[j].chapter \notin unavailable

\* C18: send_combined_notifications never raises; when the e-mail channel
\* raised and push is enabled, the push channel runs and, at the return,
\* has handled every entry.
C18_ChannelIsolation ==
    /\ dispatch.pc # "raised"
    /\ (dispatch.emailRaised /\ dispatch.web) =>
          /\ dispatch.pc \in {"push", "done"}
          /\ dispatch.email_sent = 0
          /\ dispatch.pc = "done" => Len(dispatch.chapters) = dispatch.n

\* a returned call whose e-mail channel raised and whose push channel
\* delivered messages for two entries
C18_Witness ==
    /\ dispatch.pc = "done"
    /\ dispatch.rcpt
    /\ dispatch.web
    /\ dispatch.emailRaised
    /\ dispatch.n >= 2
    /\ Len(dispatch.chapters) = dispatch.n
    /\ dispatch.push_sent > 0

\* C19: with entries to notify and a credential missing or unset,
\* send_email_notifications raises the configuration error and attempts no
\* send.
C19_IncompleteFailsFast ==
    (mail.called /\ mail.n > 0 /\ \E k \in SmtpKeys : smtp_config[k] # "set") =>
        /\ mail.raised = "KeyError"
        /\ mail.attempts = 0
        /\ mail.sent = 0

\* the subscriptions whose delivery the push service answered with 404 or 410
ReportedGone(subs, out) ==
    {subs[i] : i \in {k \in 1..Len(subs) :
                         out[k].kind = "webpush" /\ out[k].status \in {404, 410}}}

\* C20: send_notification removes exactly the subscriptions reported gone
\* and returns the number of successful deliveries.
C20_GoneRemoved ==
    push.called =>
        /\ push.after = SelectSeq(push.before,
                                  LAMBDA e : e \notin ReportedGone(push.before, push.out))
        /\ push.count = Cardinality({i \in 1..Len(push.before) : push.out[i].kind = "ok"})

\* C21: a call of send_combined_notifications with entries and a channel
\* enabled (e-mail only, push only or both) returns a chapters list that
\* holds each entry of new_entries exactly once.
C21_ChaptersListed ==
    (dispatch.pc = "done" /\ dispatch.n > 0 /\ (dispatch.rcpt \/ dispatch.web)) =>
        dispatch.chapters = dispatch.new_entries

\* C22: under every interleaving of subscribe and unsubscribe calls no
\* endpoint is stored twice, and an endpoint whose subscribe call returned
\* True stays in the list unless an unsubscribe call for it has run or is
\* running.
C22_SubscriptionsConsistent ==
    /\ \A i, j \in 1..Len(subscriptions) : subscriptions[i] = subscriptions[j] => i = j
    /\ \A e \in subscribed :
          (\A t \in Requests : ~(pushCall[t].pc = "assign" /\ pushCall[t].endpoint = e))
              => e \in Range(subscriptions)

\* C23: a get_latest_number call that overlaps refreshes answers as it
\* would on one of the complete snapshots it read: it raises nothing and
\* returns the latest number of the snapshot of its first or of its second
\* read.
C23_SnapshotWholesale ==
    lookup.pc = "returned" =>
        /\ ~lookup.raised
        /\ lookup.result \in {GetLatestNumber(lookup.first), GetLatestNumber(lookup.second)}

\* the greatest stored chapter number, 0 when nothing is stored
HighestStored == SetMax({0} \cup {n \in Chapters : dirs[n]})

\* the greatest number of the catalog snapshot, 0 when it is empty
LatestListed == SetMax({0} \cup Range(entries))

\* C24 as stated: before the first start the watermark is the greatest of
\* the highest stored chapter number, the resolver's latest number and 0.
C24_WatermarkIsMax ==
    jobCount = 0 => current_latest = Max(Max(HighestStored, LatestListed), 0)

\* C24: before the first start the watermark is the highest stored chapter
\* number when a chapter is stored, otherwise the resolver's latest number,
\* otherwise 0.
C24_WatermarkStoredFirst ==
    jobCount = 0 =>
        current_latest = IF HighestStored # 0 THEN HighestStored ELSE LatestListed

\* a scheduler constructed over a storage that holds chapter 1 and a catalog
\* that lists a later chapter
C24_Witness ==
    /\ jobCount = 0
    /\ HighestStored = 1
    /\ LatestListed > 1
    /\ current_latest = 1

\* C25: no step of a download request, of a notify request or of a catalog
\* refresh changes the scheduler's watermark.
C25_WatermarkOwnedByPoll == [][current_latest' = current_latest]_vars

\* a download request has stored a chapter above the watermark and a notify
\* request carrying its own current_latest has found new chapters
C25_Witness ==
    /\ response.status = 201
    /\ epub[RepeatedChapter] = "complete"
    /\ current_latest < RepeatedChapter
    /\ cfu.called
    /\ cfu.latest # current_latest
    /\ cfu.result # <<>>

\* the file names of the pages that have a URL
UrlNames(pages) == {AllNames[pages[i]] : i \in {k \in 1..Len(pages) : HasUrl(pages[k])}}

\* C26: download_chapter skips a page descriptor without a URL and packages
\* every page that has one: the package holds one page for each descriptor
\* with a URL, before and after the skipped ones.
C26_MissingUrlSkipped ==
    order.called =>
        /\ Range(order.spine) = UrlNames(order.pages)
        /\ Len(order.spine) = Cardinality({k \in 1..Len(order.pages) : HasUrl(order.pages[k])})

\* a page list with a descriptor without URL between two pages that have
\* one, both of them packaged
C26_Witness ==
    /\ order.called
    /\ Len(order.pages) = 3
    /\ HasUrl(order.pages[1]) /\ ~HasUrl(order.pages[2]) /\ HasUrl(order.pages[3])
    /\ order.pages[1] # order.pages[3]
    /\ Len(order.spine) = 2

\* C28: the package holds exactly one page per asset, in sorted order: as
\* many pages as distinct assets of the pages with a URL, no asset on two
\* pages, none left out.
C28_OnePagePerAsset ==
    order.called =>
        /\ Len(order.spine) = Cardinality(UrlNames(order.pages))
        /\ Range(order.spine) = UrlNames(order.pages)
        /\ \A i, k \in 1..Len(order.spine) : order.spine[i] = order.spine[k] => i = k
        /\ \A i, k \in 1..Len(order.spine) :
              i < k => ~LexLess(order.spine[k], order.spine[i])

\* C27: assets saved by a download_chapter call are kept, and a call that
\* follows a failed one and returns has built its package from the complete
\* assets of all pages.
C27_Resumable ==
    /\ [][\A n \in Chapters, p \in PageNames :
             images[n][p] = "complete" => images'[n][p] = "complete"]_vars
    /\ [](\A c \in Callers :
             (dl[c].pc = "returned" /\ response.status = 500) =>
                 /\ ~dl[c].truncated
                 /\ \A p \in Range(dl[c].pages) : images[dl[c].chapter][p] = "complete"
                 /\ epub[dl[c].chapter] = "complete")

\* a get_latest_number call has returned and no refresh replaced the cache
\* between its two reads
LookupDone == lookup.pc = "returned" /\ lookup.first = lookup.second

\* the answer is the greatest number of the snapshot the call read
AnswersMax ==
    /\ ~lookup.raised
    /\ lookup.result \in Range(lookup.first)
    /\ \A x \in Range(lookup.first) : x <= lookup.result

\* C29 as stated: get_latest_number returns None exactly when no refresh has
\* ever succeeded, and the greatest number of the snapshot otherwise.
C29_UnknownIffNeverLoaded ==
    LookupDone =>
        IF lookup.ever THEN AnswersMax ELSE lookup.result = None /\ ~lookup.raised

\* C29: get_latest_number returns None exactly when the cached snapshot is
\* empty and the greatest number of the snapshot otherwise; the cache is
\* empty until a refresh succeeds and afterwards holds the snapshot of the
\* last refresh that succeeded, whatever refreshes failed since.
C29_UnknownIffEmpty ==
    /\ LookupDone =>
          IF lookup.first = <<>> THEN lookup.result = None /\ ~lookup.raised
          ELSE AnswersMax
    /\ entries = loaded.last
    /\ ~loaded.ever => entries = <<>>

\* a call answered None although a refresh had succeeded, with a catalog
\* that lists nothing
C29_Witness ==
    /\ LookupDone
    /\ lookup.ever
    /\ loaded.ever
    /\ lookup.first = <<>>
    /\ lookup.result = None

\* a worker thread enters _job
BeginStep(j) == poll[j].pc = "queued" /\ poll'[j].pc = "check"

\* C30: the scheduler is stopped or running, only start (stopped to running)
\* and stop (running to stopped) change that, and a poll begins only while
\* the scheduler is running.
C30_PollsOnlyWhileRunning ==
    /\ [](state \in {"stopped", "running"})
    /\ [][(state' # state) =>
             (\/ (state = "stopped" /\ state' = "running" /\ jobCount' = jobCount + 1)
              \/ (state = "running" /\ state' = "stopped" /\ ~poolAlive'))]_vars
    /\ [][\A j \in JobIds : BeginStep(j) => state = "running"]_vars

\* C31: a start call made while the scheduler is running restarts it: the
\* call returns without an exception, and afterwards the scheduler is running
\* with exactly one poll job in its job store.
StartCallStep == jobCount' = jobCount + 1

C31_StartWhileRunningSucceeds ==
    [][(StartCallStep /\ state = "running")
         => (startResult' = "ok" /\ state' = "running" /\ job' \in JobIds)]_vars

\* C32: delete_chapter(n) answers 'deleted' exactly when the directory of
\* chapter n existed, and then the directory and its package are gone; when
\* the directory does not exist it answers 404 and storage is unchanged.
DeleteStep(n) == reply' # reply /\ reply'.op = "delete" /\ reply'.chapter = n

SiblingAnswered == reply.op \in Formats /\ ~reply.existed

CollectedAscending ==
    \A i, k \in 1..Len(order.listing) :
        i < k => ~LexLess(order.listing[k], order.listing[i])

InsideChapter(n, file) ==
    /\ Len(file) > Len(ChapterDir(n))
    /\ SubSeq(file, 1, Len(ChapterDir(n))) = ChapterDir(n)

C35_WritesInsideChapter ==
    asset.pc = "returned" =>
        \A file \in asset.written :
            /\ InsideChapter(asset.chapter, file)
            /\ \/ file = EpubFile(asset.chapter)
               \/ \E i \in 1..Len(asset.urls) :
                     file = ImagesDir(asset.chapter)
                                \o <<asset.urls[i][Len(asset.urls[i])]>>

\* a URL whose path climbs with ".." segments and ends in 01.jpg is saved as
\* images/01.jpg, and a URL ending in ".." writes nothing
C35_Witness ==
    /\ asset.pc = "returned"
    /\ asset.urls = <<UrlOf(MaxUp, "01.jpg"), UrlOf(0, "..")>>
    /\ asset.written = {ImagesDir(asset.chapter) \o <<"01.jpg">>}

\* C36: a chapter directory left by a failed acquisition does not count as
\* processed: when the process restarts with a directory for chapter n but
\* no package for n or any higher chapter, the new scheduler's watermark is
\* below n and a poll that finds n in the catalog treats it as new.
NoPackageFrom(n) == \A m \in n..MaxChapter : epub[m] = "absent"

C36_FailedDirectoryNotProcessed ==
    [][(\E resp \in Responses : ProcessRestart(resp)) =>
          \A n \in Chapters :
              (dirs[n] /\ NoPackageFrom(n)) =>
                  /\ current_latest' < n
                  /\ \A es \in Snapshots :
                        n \in Range(es) => n \in Range(CheckForUpdate(es, current_latest'))]_vars

\* C37: the email_sent count send_combined_notifications returns equals the
\* number of e-mails handed to the SMTP server during the call, also when
\* sending fails part-way through a batch of several entries.
HandedToSmtp(failAt) ==
    IF dispatch.rcpt THEN SendEmailNotifications(smtp_config, dispatch.n, failAt).sent
    ELSE 0

C37_EmailCountExact ==
    [][\A failAt \in 0..MaxLen :
          DispatchEmail(failAt) => dispatch'.email_sent = HandedToSmtp(failAt)]_vars

NotifyStep(j) == poll[j].pc = "notify" /\ poll'[j].pc # "notify"

C39_NotifiedOnce ==
    /\ [](\A n \in Chapters : notified[n] <= 1)
    /\ [][\A j \in JobIds : NotifyStep(j) => poll[j].idx \in poll[j].ok]_vars

\* C40: every poll that has started eventually finishes, so that the poll of
\* a later interval can start: every request it makes is bounded by a
\* timeout and its batch of new entries is finite.
C40_PollTerminates ==
    \A j \in JobIds : (poll[j].pc = "check") ~> (poll[j].pc = "idle")

====
